---- MODULE Spec2Model ----
(***************************************************************************)
(* A model of the GIE client library: the parameter validation of          *)
(* src/utils/helpers.py and the synchronous client of                      *)
(* src/clients/gie_client.py on top of src/clients/base_gie_client.py.     *)
(*                                                                         *)
(* Spec          the client: construction, the api_key property, fetch     *)
(*               and the four query operations, one action per call.       *)
(* SpecValidate  validate_input_params as a pure function of its inputs.   *)
(* SpecRules     the same function on mappings that vary page, size,       *)
(*               reverse and type.                                         *)
(* SpecDates     validate_dates as a pure function of its two dates.       *)
(***************************************************************************)
EXTENDS Integers, Sequences, FiniteSets, TLC

VARIABLES
    client,   \* "none" until GieClient.__init__ has returned, then "ready"
    api_key,  \* self.__api_key of the client
    session,  \* self.session of the client
    ctor,     \* the constructor call: its arguments and how it ended
    last,     \* the last method call on the client: arguments, GETs, outcome
    vcall     \* a call of validate_input_params (SpecValidate only)

vars == <<client, api_key, session, ctor, last, vcall>>

----------------------------------------------------------------------------
(* Python values (FlexibleValue), tagged with their type.                  *)

PyNone == [t |-> "none"]
PyStr(s) == [t |-> "str", s |-> s]
PyInt(i) == [t |-> "int", i |-> i]
PyBool(b) == [t |-> "bool", b |-> b]
\* datetime.date, as a day number: dates are ordered as their numbers are
PyDate(d) == [t |-> "date", d |-> d]
\* a dict passed where None may be passed too
PyDict(d) == [t |-> "dict", d |-> d]

\* Python's truth value of an object: `if v`, `not v`
Truthy(v) ==
    CASE v.t = "none" -> FALSE
      [] v.t = "str" -> v.s # ""
      [] v.t = "int" -> v.i # 0
      [] v.t = "bool" -> v.b
      [] v.t = "date" -> TRUE
      [] v.t = "dict" -> DOMAIN v.d # {}
      [] v.t = "session" -> TRUE

IsNum(v) == v.t \in {"int", "bool"}

\* bool is a subclass of int: True is 1 and False is 0
Num(v) == IF v.t = "bool" THEN (IF v.b THEN 1 ELSE 0) ELSE v.i

\* Python's ==
PyEq(a, b) == IF IsNum(a) /\ IsNum(b) THEN Num(a) = Num(b) ELSE a = b

\* Python's `v in [options]`
PyIn(v, options) == \E i \in 1..Len(options) : PyEq(v, options[i])

\* a dict is a function on its keys; params.get(k, None) and `k in params`
HasKey(d, k) == k \in DOMAIN d
DictGet(d, k) == IF HasKey(d, k) THEN d[k] ELSE PyNone
EmptyDict == [k \in {} |-> PyNone]

----------------------------------------------------------------------------
(* Outcomes of a call: a normal return or the exception that leaves it.    *)
(* msg is the literal text of the message; arg is what an f-string         *)
(* appends to it.                                                          *)

Ok == [exc |-> "none", msg |-> "", arg |-> <<>>]
ValueError(m) == [exc |-> "ValueError", msg |-> m, arg |-> <<>>]
ValueErrorF(m, a) == [exc |-> "ValueError", msg |-> m, arg |-> a]
KeyError(k) == [exc |-> "KeyError", msg |-> k, arg |-> <<>>]
TypeError == [exc |-> "TypeError", msg |-> "", arg |-> <<>>]

----------------------------------------------------------------------------
(* The endpoint enumeration APIType: its members and their base URLs.      *)
(* A URL is its host, the segments of its path and whether the path ends   *)
(* in "/".                                                                 *)

APIType == {"AGSI", "ALSI"}

IsAPIType(x) == x \in APIType

ApiValue(a) ==
    IF a = "AGSI"
    THEN [host |-> "agsi.gie.eu", segs |-> <<"api">>, slash |-> TRUE]
    ELSE [host |-> "alsi.gie.eu", segs |-> <<"api">>, slash |-> TRUE]

\* urllib.parse.urljoin(base, url) for a one-segment relative url or None
urljoin(base, url) ==
    IF ~Truthy(url) THEN base
    ELSE IF base.slash
         THEN [base EXCEPT !.segs = Append(@, url.s), !.slash = FALSE]
         ELSE [base EXCEPT !.segs = Append(SubSeq(@, 1, Len(@) - 1), url.s),
                           !.slash = FALSE]

----------------------------------------------------------------------------
(* src/utils/helpers.py                                                    *)

SizeMin == 1
SizeMax == 300

\* the messages of the ValueErrors, without the backquotes the code puts
\* around field names
DateErrorMsg == "Starting date is after end date!"
ApiTypeErrorMsg == "The starting date must be before the end date."
CountryErrorMsg == "country must be provided if company or facility are passed"
CompanyErrorMsg == "company must be provided if facility is passed"
PageErrorMsg == "page param must be more than 0"
SizeErrorMsg == "size param must be between 1 and 300"
ReverseErrorMsg == "reverse must be one of: "
TypeErrorMsg == "type must be one of "

at_or_after_validate_dates(beginning, end) ==
    IF (Truthy(beginning) /\ Truthy(end)) /\ beginning.d >= end.d
    THEN ValueError(DateErrorMsg)
    ELSE Ok

validate_dates(beginning, end) ==
    IF (Truthy(beginning) /\ Truthy(end)) /\ beginning.d > end.d
    THEN ValueError(DateErrorMsg)
    ELSE Ok

CheckApiType(api_type) ==
    IF ~IsAPIType(api_type) THEN ValueError(ApiTypeErrorMsg) ELSE Ok

\* `not params["country"] and (params["company"] or params["facility"])`,
\* the subscripts evaluated left to right, each one only when reached
CheckCountry(params) ==
    IF ~HasKey(params, "country") THEN KeyError("country")
    ELSE IF Truthy(params["country"]) THEN Ok
    ELSE IF ~HasKey(params, "company") THEN KeyError("company")
    ELSE IF Truthy(params["company"]) THEN ValueError(CountryErrorMsg)
    ELSE IF ~HasKey(params, "facility") THEN KeyError("facility")
    ELSE IF Truthy(params["facility"]) THEN ValueError(CountryErrorMsg)
    ELSE Ok

NoCheckCompany(params) == Ok

\* `params["facility"] and not params["company"]`
CheckCompany(params) ==
    IF ~HasKey(params, "facility") THEN KeyError("facility")
    ELSE IF ~Truthy(params["facility"]) THEN Ok
    ELSE IF ~HasKey(params, "company") THEN KeyError("company")
    ELSE IF ~Truthy(params["company"]) THEN ValueError(CompanyErrorMsg)
    ELSE Ok

FromToOnlyCheckDates(params) ==
    validate_dates(DictGet(params, "from_date"), DictGet(params, "to_date"))

CheckDates(params) ==
    LET r == validate_dates(DictGet(params, "from_date"),
                            DictGet(params, "to_date"))
    IN  IF r # Ok THEN r
        ELSE validate_dates(DictGet(params, "start"), DictGet(params, "end"))

NegativeOnlyCheckPage(params) ==
    IF ~HasKey(params, "page") THEN KeyError("page")
    ELSE IF ~IsNum(params["page"]) THEN TypeError
    ELSE IF Num(params["page"]) < 0 THEN ValueError(PageErrorMsg)
    ELSE Ok

\* `params["page"] <= 0`
CheckPage(params) ==
    IF ~HasKey(params, "page") THEN KeyError("page")
    ELSE IF ~IsNum(params["page"]) THEN TypeError
    ELSE IF Num(params["page"]) <= 0 THEN ValueError(PageErrorMsg)
    ELSE Ok

StrictUpperCheckSize(params) ==
    IF ~HasKey(params, "size") THEN KeyError("size")
    ELSE IF ~IsNum(params["size"]) THEN TypeError
    ELSE IF ~(SizeMin <= Num(params["size"]) /\ Num(params["size"]) < SizeMax)
         THEN ValueError(SizeErrorMsg)
    ELSE Ok

\* `not (1 <= params["size"] <= 300)`
CheckSize(params) ==
    IF ~HasKey(params, "size") THEN KeyError("size")
    ELSE IF ~IsNum(params["size"]) THEN TypeError
    ELSE IF ~(SizeMin <= Num(params["size"]) /\ Num(params["size"]) <= SizeMax)
         THEN ValueError(SizeErrorMsg)
    ELSE Ok

string_reverse_options == <<PyStr("true"), PyStr("false")>>

reverse_options == <<PyStr("true"), PyStr("false"), PyInt(0), PyInt(1)>>

CheckReverse(params) ==
    IF ~HasKey(params, "reverse") THEN KeyError("reverse")
    ELSE IF Truthy(params["reverse"]) /\ ~PyIn(params["reverse"], reverse_options)
         THEN ValueErrorF(ReverseErrorMsg, reverse_options)
    ELSE Ok

storage_only_type_vars(request_type) ==
    <<PyStr("EU"), PyStr("NE"), PyStr("AI")>>

type_vars(request_type) ==
    IF request_type = "storage"
    THEN <<PyStr("EU"), PyStr("NE"), PyStr("AI")>>
    ELSE <<PyStr("Unplanned"), PyStr("Planned")>>

CheckType(params, request_type) ==
    IF ~HasKey(params, "type") THEN KeyError("type")
    ELSE IF Truthy(params["type"]) /\ ~PyIn(params["type"], type_vars(request_type))
         THEN ValueErrorF(TypeErrorMsg, type_vars(request_type))
    ELSE Ok

size_first_validate_input_params(api_type, params, request_type) ==
    IF CheckApiType(api_type) # Ok THEN CheckApiType(api_type)
    ELSE IF CheckCountry(params) # Ok THEN CheckCountry(params)
    ELSE IF CheckCompany(params) # Ok THEN CheckCompany(params)
    ELSE IF CheckDates(params) # Ok THEN CheckDates(params)
    ELSE IF CheckSize(params) # Ok THEN CheckSize(params)
    ELSE IF CheckPage(params) # Ok THEN CheckPage(params)
    ELSE IF CheckReverse(params) # Ok THEN CheckReverse(params)
    ELSE CheckType(params, request_type)

\* the checks in the order of the code; the first exception leaves the call
validate_input_params(api_type, params, request_type) ==
    IF CheckApiType(api_type) # Ok THEN CheckApiType(api_type)
    ELSE IF CheckCountry(params) # Ok THEN CheckCountry(params)
    ELSE IF CheckCompany(params) # Ok THEN CheckCompany(params)
    ELSE IF CheckDates(params) # Ok THEN CheckDates(params)
    ELSE IF CheckPage(params) # Ok THEN CheckPage(params)
    ELSE IF CheckSize(params) # Ok THEN CheckSize(params)
    ELSE IF CheckReverse(params) # Ok THEN CheckReverse(params)
    ELSE CheckType(params, request_type)

----------------------------------------------------------------------------
(* src/clients/base_gie_client.py and GieClient.__init__                   *)

MissingKeyMsg == "API key is missing?"
MissingHeaderMsg == "Session headers must include 'x-key'"
IncorrectHeaderMsg == "Session headers include incorrect 'x-key'"

\* a requests.Session: its headers, a dict from header name to value
Session(headers) == [t |-> "session", headers |-> headers]

AcceptAnyApiKey(value) == Ok

\* the api_key setter: how the assignment `self.api_key = value` ends
ApiKeySetter(value) ==
    IF ~Truthy(value) THEN ValueError(MissingKeyMsg) ELSE Ok

PresenceOnlyValidateSessionHeaders(sess, key) ==
    IF ~HasKey(sess.headers, "x-key") THEN ValueError(MissingHeaderMsg) ELSE Ok

\* _validate_session_headers, of a client with this session and api_key
ValidateSessionHeaders(sess, key) ==
    IF ~HasKey(sess.headers, "x-key") THEN ValueError(MissingHeaderMsg)
    ELSE IF ~PyEq(sess.headers["x-key"], key) THEN ValueError(IncorrectHeaderMsg)
    ELSE Ok

DefaultHeadersNewSession(key) == Session(("User-Agent" :> PyStr("python-requests")))

\* `session = requests.Session(); session.headers = {"x-key": self.api_key}`
NewSession(key) == Session(("x-key" :> key))

\* GieClient.__init__(api_key, session): the exception that leaves it (Ok
\* when it returns), the session the client holds, and whether a session
\* was created
GieClientInit(key, sess) ==
    IF ApiKeySetter(key) # Ok
    THEN [raised |-> ApiKeySetter(key), session |-> PyNone, created |-> FALSE]
    ELSE LET s == IF ~Truthy(sess) THEN NewSession(key) ELSE sess
         IN  [raised |-> ValidateSessionHeaders(s, key),
              session |-> s,
              created |-> ~Truthy(sess)]

----------------------------------------------------------------------------
(* The transport: what session.get and response.json do is not the         *)
(* client's choice.                                                        *)

Json(j) == [t |-> "json", j |-> j]
NoValue == [t |-> "novalue"]
NoTransport == [kind |-> "unused"]

Bodies == {"data", "result"}

Transports ==
    {[kind |-> "ok", body |-> Json(b)] : b \in Bodies}
        \cup {[kind |-> "get_raises", error |-> [exc |-> "RequestException", msg |-> "get", arg |-> <<>>]],
              [kind |-> "json_raises", error |-> [exc |-> "JSONDecodeError", msg |-> "json", arg |-> <<>>]]}

----------------------------------------------------------------------------
(* src/clients/gie_client.py                                               *)

not_none_final_params(params) ==
    IF Truthy(params)
    THEN [k \in {x \in DOMAIN params.d : params.d[x] # PyNone} |-> params.d[k]]
    ELSE EmptyDict

\* `{k: v for k, v in params.items() if v} if params else dict()`
final_params(params) ==
    IF Truthy(params)
    THEN [k \in {x \in DOMAIN params.d : Truthy(params.d[x])} |-> params.d[k]]
    ELSE EmptyDict

\* GieClient.fetch on session sess: the GETs issued, the exception that
\* leaves the call (Ok when it returns) and the value returned
retrying_fetch(sess, api_type, params, endpoint, transport) ==
    LET request == [url |-> urljoin(ApiValue(api_type), endpoint),
                    params |-> final_params(params),
                    headers |-> sess.headers]
    IN  [gets |-> IF transport.kind = "ok" THEN <<request>>
                  ELSE <<request, request>>,
         raised |-> IF transport.kind = "ok" THEN Ok ELSE transport.error,
         result |-> IF transport.kind = "ok" THEN transport.body ELSE NoValue]

fetch(sess, api_type, params, endpoint, transport) ==
    LET request == [url |-> urljoin(ApiValue(api_type), endpoint),
                    params |-> final_params(params),
                    headers |-> sess.headers]
    IN  [gets |-> <<request>>,
         raised |-> IF transport.kind = "ok" THEN Ok ELSE transport.error,
         result |-> IF transport.kind = "ok" THEN transport.body ELSE NoValue]

FromDateKeyStorageParams(a) ==
    ("from_date" :> a.from_date) @@ ("to_date" :> a.to_date) @@ ("date" :> a.date)
        @@ ("page" :> a.page) @@ ("reverse" :> a.reverse) @@ ("size" :> a.size)
        @@ ("updated" :> a.updated) @@ ("type" :> a.type)
        @@ ("country" :> a.country) @@ ("company" :> a.company)
        @@ ("facility" :> a.facility)

StorageParams(a) ==
    ("from" :> a.from_date) @@ ("to" :> a.to_date) @@ ("date" :> a.date)
        @@ ("page" :> a.page) @@ ("reverse" :> a.reverse) @@ ("size" :> a.size)
        @@ ("updated" :> a.updated) @@ ("type" :> a.type)
        @@ ("country" :> a.country) @@ ("company" :> a.company)
        @@ ("facility" :> a.facility)

query_storage(sess, a, transport) ==
    LET params == StorageParams(a)
        v == validate_input_params(a.api_type, params, "storage")
    IN  IF v # Ok
        THEN [gets |-> <<>>, raised |-> v, result |-> NoValue]
        ELSE fetch(sess, a.api_type, PyDict(params), PyNone, transport)

NoEndFlagUnavailabilityParams(a) ==
    ("page" :> a.page) @@ ("reverse" :> a.reverse) @@ ("size" :> a.size)
        @@ ("from" :> a.from_date) @@ ("to" :> a.to_date)
        @@ ("start" :> a.start) @@ ("end" :> a.end)
        @@ ("updated" :> a.updated) @@ ("type" :> a.type)
        @@ ("country" :> a.country)
        @@ ("company" :> a.company) @@ ("facility" :> a.facility)

UnavailabilityParams(a) ==
    ("page" :> a.page) @@ ("reverse" :> a.reverse) @@ ("size" :> a.size)
        @@ ("from" :> a.from_date) @@ ("to" :> a.to_date)
        @@ ("start" :> a.start) @@ ("end" :> a.end)
        @@ ("updated" :> a.updated) @@ ("type" :> a.type)
        @@ ("end_flag" :> a.end_flag) @@ ("country" :> a.country)
        @@ ("company" :> a.company) @@ ("facility" :> a.facility)

query_unavailability(sess, a, transport) ==
    LET params == UnavailabilityParams(a)
        v == validate_input_params(a.api_type, params, "unavailability")
    IN  IF v # Ok
        THEN [gets |-> <<>>, raised |-> v, result |-> NoValue]
        ELSE fetch(sess, a.api_type, PyDict(params), PyStr("unavailability"),
                   transport)

always_show_query_eic_listing(sess, a, transport) ==
    fetch(sess, a.api_type, PyDict(("show" :> PyStr("listing"))),
          PyStr("about"), transport)

query_eic_listing(sess, a, transport) ==
    LET params == IF Truthy(a.show_listing)
                  THEN PyDict(("show" :> PyStr("listing")))
                  ELSE PyNone
    IN  fetch(sess, a.api_type, params, PyStr("about"), transport)

query_news_listing(sess, a, transport) ==
    LET params == IF Truthy(a.news_url)
                  THEN PyDict(("url" :> a.news_url))
                  ELSE PyNone
    IN  fetch(sess, a.api_type, params, PyStr("news"), transport)

----------------------------------------------------------------------------
(* The calls the environment makes: the arguments each operation is given. *)

MaxDate == 2

Dates == 1..MaxDate
DateInputs == {PyNone} \cup {PyDate(d) : d \in Dates}

ApiKeyInputs ==
    {PyNone, PyStr(""), PyStr("valid_api_key"), PyStr("wrong_api_key")}

HeaderInputs ==
    {EmptyDict, ("Accept" :> PyStr("json"))}
        \cup {("x-key" :> v) :
                v \in {PyStr(""), PyStr("valid_api_key"), PyStr("wrong_api_key")}}

SessionInputs == {PyNone} \cup {Session(h) : h \in HeaderInputs}

StorageCall(api, page, reverse, size, from_date, to_date, date, updated, type, country, company, facility) ==
    [api_type |-> api, page |-> page, reverse |-> reverse, size |-> size,
     from_date |-> from_date, to_date |-> to_date, date |-> date,
     updated |-> updated, type |-> type, country |-> country,
     company |-> company, facility |-> facility]

CountryCompanyFacility ==
    [country : {PyNone, PyStr("DE")},
     company : {PyNone, PyStr("ABC Corp")},
     facility : {PyNone, PyStr("Facility 1")}]

\* `reverse: Literal["true", "false", 0, 1] | None`
ReverseLiterals ==
    {PyStr("true"), PyStr("false"), PyInt(0), PyInt(1), PyStr("yes")}

StorageArgs ==
    {StorageCall("AGSI", PyInt(1), PyNone, PyInt(30), f, t, d, PyNone, PyNone,
                 PyStr("DE"), PyStr("ABC Corp"), PyNone) :
        f \in DateInputs, t \in DateInputs, d \in {PyNone, PyDate(1)}}
    \cup
    {StorageCall("AGSI", p, r, s, PyNone, PyNone, PyNone, PyNone, ty,
                 PyNone, PyNone, PyNone) :
        p \in {PyNone, PyInt(0), PyInt(1)},
        r \in {PyNone, PyInt(0), PyStr("true")},
        s \in {PyNone, PyInt(30), PyInt(400)},
        ty \in {PyNone, PyStr("EU"), PyStr("Planned")}}
    \cup
    {StorageCall(api, PyInt(1), PyNone, PyInt(30), PyNone, PyNone, PyNone,
                 PyDate(1), PyNone, c.country, c.company, c.facility) :
        api \in APIType, c \in CountryCompanyFacility}
    \cup
    {StorageCall("AGSI", PyInt(1), r, PyInt(30), PyNone, PyNone, PyNone,
                 PyNone, PyNone, PyStr("DE"), PyNone, PyNone) :
        r \in ReverseLiterals}

UnavailabilityCall(api, page, reverse, size, from_date, to_date, start, end, updated, type, end_flag, country, company, facility) ==
    [api_type |-> api, page |-> page, reverse |-> reverse, size |-> size,
     from_date |-> from_date, to_date |-> to_date, start |-> start,
     end |-> end, updated |-> updated, type |-> type, end_flag |-> end_flag,
     country |-> country, company |-> company, facility |-> facility]

FromToInputs ==
    {<<PyNone, PyNone>>, <<PyDate(1), PyDate(MaxDate)>>,
     <<PyDate(MaxDate), PyDate(1)>>}

UnavailabilityArgs ==
    {UnavailabilityCall("AGSI", PyInt(1), PyNone, PyInt(30), ft[1], ft[2],
                        st, en, PyNone, PyNone, PyNone, PyNone, PyNone, PyNone) :
        ft \in FromToInputs, st \in DateInputs, en \in DateInputs}
    \cup
    {UnavailabilityCall("AGSI", PyInt(1), PyNone, s, PyNone, PyNone, PyNone,
                        PyNone, PyNone, ty, ef, PyNone, PyNone, PyNone) :
        s \in {PyInt(30), PyInt(400)},
        ty \in {PyNone, PyStr("Unplanned"), PyStr("EU")},
        ef \in {PyNone, PyStr("Confirmed"), PyStr("confirmed"),
                PyStr("wrong flag")}}
    \cup
    {UnavailabilityCall(api, PyInt(1), PyNone, PyInt(30), PyDate(1),
                        PyDate(MaxDate), PyNone, PyNone, PyNone,
                        PyStr("Unplanned"), PyStr("Confirmed"), PyStr("DE"),
                        PyStr("ABC Corp"), PyNone) : api \in APIType}
    \cup
    {UnavailabilityCall("AGSI", PyInt(1), r, PyInt(30), PyNone, PyNone,
                        PyNone, PyNone, PyNone, PyNone, PyNone, PyStr("DE"),
                        PyNone, PyNone) : r \in ReverseLiterals}

ValueInputs ==
    {PyNone, PyStr(""), PyStr("y"), PyInt(0), PyInt(1), PyBool(FALSE),
     PyBool(TRUE)}

FetchArgs ==
    {[api_type |-> api, params |-> p, endpoint |-> e] :
        api \in APIType,
        p \in {PyNone, PyDict(EmptyDict),
               PyDict(("param1" :> PyStr("value1")))},
        e \in {PyNone, PyStr("test_endpoint")}}
    \cup
    {[api_type |-> "AGSI",
      params |-> PyDict(("a" :> PyStr("x")) @@ ("b" :> v)),
      endpoint |-> PyNone] : v \in ValueInputs}
    \cup
    {[api_type |-> "AGSI",
      params |-> PyDict(("a" :> PyStr("x")) @@ ("b" :> PyStr(""))
                        @@ ("c" :> PyInt(0)) @@ ("d" :> PyNone)
                        @@ ("e" :> PyBool(FALSE)) @@ ("f" :> PyStr("y"))),
      endpoint |-> PyNone]}

EicArgs == [api_type : APIType, show_listing : {PyBool(FALSE), PyBool(TRUE)}]

NewsArgs ==
    [api_type : APIType, news_url : {PyNone, PyStr(""), PyStr("371616")}]

----------------------------------------------------------------------------
(* The client as a state machine: one action per call.                     *)

NoCall == [op |-> "none"]

Call(op, args, r, transport) ==
    [op |-> op, args |-> args, gets |-> r.gets, raised |-> r.raised,
     result |-> r.result,
     transport |-> IF r.gets = <<>> THEN NoTransport ELSE transport]

Init ==
    /\ client = "none"
    /\ api_key = PyNone
    /\ session = PyNone
    /\ ctor = NoCall
    /\ last = NoCall
    /\ vcall = NoCall

\* client = GieClient(api_key=k, session=s)
Construct ==
    /\ client = "none"
    /\ \E k \in ApiKeyInputs, s \in SessionInputs :
          LET r == GieClientInit(k, s)
          IN  /\ ctor' = [op |-> "__init__",
                          args |-> [api_key |-> k, session |-> s],
                          raised |-> r.raised,
                          created_session |-> r.created]
              /\ IF r.raised = Ok
                 THEN /\ client' = "ready"
                      /\ api_key' = k
                      /\ session' = r.session
                 ELSE UNCHANGED <<client, api_key, session>>
    /\ UNCHANGED <<last, vcall>>

\* client.api_key = v
SetApiKey ==
    /\ client = "ready"
    /\ \E v \in ApiKeyInputs :
          /\ api_key' = IF ApiKeySetter(v) = Ok THEN v ELSE api_key
          /\ last' = Call("api_key", [value |-> v],
                          [gets |-> <<>>, raised |-> ApiKeySetter(v),
                           result |-> NoValue], NoTransport)
    /\ UNCHANGED <<client, session, ctor, vcall>>

Fetch ==
    /\ client = "ready"
    /\ \E a \in FetchArgs, tr \in Transports :
          last' = Call("fetch", a,
                       fetch(session, a.api_type, a.params, a.endpoint, tr), tr)
    /\ UNCHANGED <<client, api_key, session, ctor, vcall>>

QueryStorage ==
    /\ client = "ready"
    /\ \E a \in StorageArgs, tr \in Transports :
          last' = Call("query_storage", a, query_storage(session, a, tr), tr)
    /\ UNCHANGED <<client, api_key, session, ctor, vcall>>

QueryUnavailability ==
    /\ client = "ready"
    /\ \E a \in UnavailabilityArgs, tr \in Transports :
          last' = Call("query_unavailability", a,
                       query_unavailability(session, a, tr), tr)
    /\ UNCHANGED <<client, api_key, session, ctor, vcall>>

QueryEicListing ==
    /\ client = "ready"
    /\ \E a \in EicArgs, tr \in Transports :
          last' = Call("query_eic_listing", a,
                       query_eic_listing(session, a, tr), tr)
    /\ UNCHANGED <<client, api_key, session, ctor, vcall>>

QueryNewsListing ==
    /\ client = "ready"
    /\ \E a \in NewsArgs, tr \in Transports :
          last' = Call("query_news_listing", a,
                       query_news_listing(session, a, tr), tr)
    /\ UNCHANGED <<client, api_key, session, ctor, vcall>>

Next ==
    \/ Construct
    \/ SetApiKey
    \/ Fetch
    \/ QueryStorage
    \/ QueryUnavailability
    \/ QueryEicListing
    \/ QueryNewsListing

Spec == Init /\ [][Next]_vars

----------------------------------------------------------------------------
(* validate_input_params as a function of its arguments: the call is       *)
(* drawn by the initial state and Validate applies the function to it.     *)

Absent == [t |-> "absent"]

\* the dict of the keys that are given a value
MkDict(f) == [k \in {x \in DOMAIN f : f[x] # Absent} |-> f[k]]

ApiTypeInputs == APIType \cup {"NotAnAPIType"}

TextInputs(s) == {Absent, PyNone, PyStr(""), PyStr(s)}

ValidateParams ==
    {MkDict(("country" :> co) @@ ("company" :> cm) @@ ("facility" :> fa)
            @@ ("from_date" :> f) @@ ("to_date" :> t)
            @@ ("start" :> se[1]) @@ ("end" :> se[2])
            @@ ("page" :> p) @@ ("size" :> s) @@ ("reverse" :> r)
            @@ ("type" :> ty)) :
        co \in TextInputs("US"), cm \in TextInputs("ABC Corp"),
        fa \in TextInputs("Facility 1"),
        f \in DateInputs, t \in DateInputs,
        se \in {<<Absent, Absent>>, <<PyDate(MaxDate), PyDate(1)>>},
        p \in {Absent, PyInt(0), PyInt(1)},
        s \in {PyNone, PyInt(100), PyInt(301)},
        r \in {PyNone, PyStr("true"), PyStr("invalid_value")},
        ty \in {PyNone, PyStr("EU"), PyStr("InvalidType")}}

Pending == [exc |-> "pending", msg |-> "", arg |-> <<>>]

InitValidate ==
    /\ client = "none"
    /\ api_key = PyNone
    /\ session = PyNone
    /\ ctor = NoCall
    /\ last = NoCall
    /\ \E a \in ApiTypeInputs, p \in ValidateParams,
          rt \in {"storage", "unavailability"} :
          vcall = [op |-> "validate_input_params", api_type |-> a,
                   params |-> p, request_type |-> rt, raised |-> Pending]

Validate ==
    /\ vcall.op = "validate_input_params"
    /\ vcall.raised = Pending
    /\ vcall' = [vcall EXCEPT !.raised =
                    validate_input_params(vcall.api_type, vcall.params,
                                          vcall.request_type)]
    /\ UNCHANGED <<client, api_key, session, ctor, last>>

SpecValidate == InitValidate /\ [][Validate]_vars

----------------------------------------------------------------------------
(* validate_input_params on mappings that vary page, size, reverse and     *)
(* type, and on a sweep of every size around the accepted range.           *)

MaxPage == 2

PageInputs == {Absent, PyNone} \cup {PyInt(i) : i \in (0 - MaxPage)..MaxPage}

SizeInputs ==
    {Absent, PyNone}
        \cup {PyInt(i) : i \in {SizeMin - 2, SizeMin - 1, SizeMin, SizeMin + 1,
                                150, SizeMax - 1, SizeMax, SizeMax + 1,
                                SizeMax + 100}}

ReverseInputs ==
    {Absent, PyNone, PyStr(""), PyStr("true"), PyStr("false"), PyStr("True"),
     PyStr("invalid_value"), PyInt(0), PyInt(1), PyInt(2), PyBool(FALSE),
     PyBool(TRUE)}

TypeInputs ==
    {Absent, PyNone, PyStr(""), PyStr("EU"), PyStr("NE"), PyStr("AI"),
     PyStr("Planned"), PyStr("Unplanned"), PyStr("InvalidType"), PyStr("eu")}

PlaceInputs ==
    {<<PyStr("US"), PyStr("ABC Corp"), PyNone>>,
     <<PyStr("US"), PyStr(""), PyNone>>,
     <<PyNone, PyStr("ABC Corp"), PyNone>>,
     <<PyStr("US"), PyNone, PyStr("Facility 1")>>}

RangeInputs ==
    {<<Absent, Absent, Absent, Absent>>,
     <<PyDate(MaxDate), PyDate(1), Absent, Absent>>,
     <<PyNone, PyNone, PyDate(MaxDate), PyDate(1)>>}

RuleParams ==
    {MkDict(("country" :> pl[1]) @@ ("company" :> pl[2]) @@ ("facility" :> pl[3])
            @@ ("from_date" :> ra[1]) @@ ("to_date" :> ra[2])
            @@ ("start" :> ra[3]) @@ ("end" :> ra[4])
            @@ ("page" :> p) @@ ("size" :> s) @@ ("reverse" :> r)
            @@ ("type" :> ty)) :
        pl \in PlaceInputs, ra \in RangeInputs, p \in PageInputs,
        s \in SizeInputs, r \in ReverseInputs, ty \in TypeInputs}
    \cup
    {("country" :> PyStr("US")) @@ ("company" :> PyStr("ABC Corp"))
        @@ ("facility" :> PyNone) @@ ("page" :> PyInt(1)) @@ ("size" :> PyInt(i))
        @@ ("reverse" :> PyStr("true")) @@ ("type" :> PyNone) :
        i \in (SizeMin - 3)..(SizeMax + 3)}

InitRules ==
    /\ client = "none"
    /\ api_key = PyNone
    /\ session = PyNone
    /\ ctor = NoCall
    /\ last = NoCall
    /\ \E a \in ApiTypeInputs, p \in RuleParams,
          rt \in {"storage", "unavailability"} :
          vcall = [op |-> "validate_input_params", api_type |-> a,
                   params |-> p, request_type |-> rt, raised |-> Pending]

SpecRules == InitRules /\ [][Validate]_vars

----------------------------------------------------------------------------
(* validate_dates on every pair of dates of a short calendar, None         *)
(* included.                                                               *)

MaxDay == 7

DayInputs == {PyNone} \cup {PyDate(d) : d \in 1..MaxDay}

InitDates ==
    /\ client = "none"
    /\ api_key = PyNone
    /\ session = PyNone
    /\ ctor = NoCall
    /\ last = NoCall
    /\ \E b \in DayInputs, e \in DayInputs :
          vcall = [op |-> "validate_dates", beginning |-> b, end |-> e,
                   raised |-> Pending]

ValidateDates ==
    /\ vcall.op = "validate_dates"
    /\ vcall.raised = Pending
    /\ vcall' = [vcall EXCEPT
                    !.raised = validate_dates(vcall.beginning, vcall.end)]
    /\ UNCHANGED <<client, api_key, session, ctor, last>>

SpecDates == InitDates /\ [][ValidateDates]_vars

----------------------------------------------------------------------------
(* What the specification says of a call, in terms of the call's fields:   *)
(* the vocabulary of the properties below.                                 *)

Given(v) == v # PyNone /\ v # Absent
NonEmpty(v) == Given(v) /\ v # PyStr("")

Constructed == ctor.op = "__init__"
IsQuery == last.op \in {"query_storage", "query_unavailability"}
Kind == IF last.op = "query_storage" THEN "storage" ELSE "unavailability"
Validated == vcall.op = "validate_input_params" /\ vcall.raised # Pending

After(b, e) == Given(b) /\ Given(e) /\ b.d > e.d

RuleEndpoint(a) == a.api_type \in APIType
RuleCountry(a) ==
    (NonEmpty(a.company) \/ NonEmpty(a.facility)) => NonEmpty(a.country)
RuleCompany(a) == NonEmpty(a.facility) => NonEmpty(a.company)
RuleFromTo(a) == ~After(a.from_date, a.to_date)
RuleStartEnd(a, kind) == kind = "unavailability" => ~After(a.start, a.end)
RulePage(a) == Given(a.page) => (a.page.t = "int" /\ a.page.i > 0)
RuleSize(a) ==
    Given(a.size) => (a.size.t = "int" /\ a.size.i >= 1 /\ a.size.i <= 300)
\* the accepted tokens; a boolean counts as the integer it equals (0 or 1)
ReverseTokens == {PyStr("true"), PyStr("false"), PyInt(0), PyInt(1)}
IsReverseToken(v) ==
    \/ v \in ReverseTokens
    \/ v.t = "bool" /\ PyInt(IF v.b THEN 1 ELSE 0) \in ReverseTokens
RuleReverse(a) == NonEmpty(a.reverse) => IsReverseToken(a.reverse)
RuleType(a, kind) ==
    NonEmpty(a.type)
        => IF kind = "storage"
           THEN a.type \in {PyStr("EU"), PyStr("NE"), PyStr("AI")}
           ELSE a.type \in {PyStr("Planned"), PyStr("Unplanned")}

\* every rule but those of the two date ranges, with page and size given
FieldsValid(a, kind) ==
    /\ RuleEndpoint(a) /\ RuleCountry(a) /\ RuleCompany(a)
    /\ Given(a.page) /\ RulePage(a) /\ Given(a.size) /\ RuleSize(a)
    /\ RuleReverse(a) /\ RuleType(a, kind)

RulesHold(a, kind) ==
    /\ RuleEndpoint(a) /\ RuleCountry(a) /\ RuleCompany(a)
    /\ RuleFromTo(a) /\ RuleStartEnd(a, kind)
    /\ RulePage(a) /\ RuleSize(a) /\ RuleReverse(a) /\ RuleType(a, kind)

NoRequest == last.gets = <<>>
OneRequest == Len(last.gets) = 1
ValidationFailed == last.raised.exc = "ValueError" /\ NoRequest

----------------------------------------------------------------------------
(* C1: once a GieClient is constructed, after any sequence of calls and    *)
(* of assignments to its api_key property, the 'x-key' header of its       *)
(* session equals its api_key, which is the one given at construction.     *)
C1_SessionAgreesWithKey ==
    client = "ready"
        => /\ HasKey(session.headers, "x-key")
           /\ session.headers["x-key"] = api_key
           /\ api_key = ctor.args.api_key

(* C2: a query_storage or query_unavailability call, page and size given, *)
(* issues exactly one GET when its parameters satisfy the validation       *)
(* rules, and no GET but a validation error when any rule is violated.     *)
C2_OneGetIffRulesHold ==
    (IsQuery /\ Given(last.args.page) /\ Given(last.args.size))
        => IF RulesHold(last.args, Kind)
           THEN OneRequest
           ELSE ValidationFailed

(* C3, as stated: with a session supplied, construction fails when the     *)
(* session has no 'x-key' header or one different from the api_key, and    *)
(* succeeds when the header equals the api_key.                            *)
C3_AsStated ==
    (Constructed /\ ctor.args.session # PyNone)
        => LET h == ctor.args.session.headers
               k == ctor.args.api_key
           IN  IF ~HasKey(h, "x-key") \/ h["x-key"] # k
               THEN ctor.raised.exc = "ValueError" /\ client = "none"
               ELSE ctor.raised = Ok /\ client = "ready"

(* C3, amended: with a session supplied, construction fails with a         *)
(* ValueError, leaving no client and no call possible, when the session    *)
(* has no 'x-key' header or one different from the api_key; it succeeds,   *)
(* the client holding that session, when the header equals the api_key     *)
(* and the api_key is not empty.                                           *)
C3_SuppliedSessionChecked ==
    (Constructed /\ ctor.args.session # PyNone)
        => LET h == ctor.args.session.headers
               k == ctor.args.api_key
           IN  IF ~HasKey(h, "x-key") \/ h["x-key"] # k
               THEN /\ ctor.raised.exc = "ValueError"
                    /\ client = "none"
                    /\ last = NoCall
               ELSE NonEmpty(k)
                       => /\ ctor.raised = Ok
                          /\ client = "ready"
                          /\ session = ctor.args.session

C3_Witness ==
    /\ Constructed
    /\ ctor.args.session # PyNone
    /\ NonEmpty(ctor.args.api_key)
    /\ HasKey(ctor.args.session.headers, "x-key")
    /\ ctor.args.session.headers["x-key"] # ctor.args.api_key
    /\ ctor.raised = ValueError(IncorrectHeaderMsg)
    /\ client = "none"

(* C4: construction with an empty or null api_key fails with the           *)
(* missing-key error whatever session is supplied: no session is created   *)
(* and no client exists.                                                   *)
C4_EmptyKeyRejected ==
    (Constructed /\ ~NonEmpty(ctor.args.api_key))
        => /\ ctor.raised = ValueError(MissingKeyMsg)
           /\ ~ctor.created_session
           /\ client = "none"
           /\ session = PyNone

C4_Witness ==
    /\ Constructed
    /\ ctor.args.api_key = PyStr("")
    /\ ctor.args.session = Session(("x-key" :> PyStr("")))
    /\ ctor.raised = ValueError(MissingKeyMsg)
    /\ client = "none"

\* every GET of the last call carried exactly the header 'x-key: k'
GetsCarry(k) ==
    last.op # "none"
        => \A i \in 1..Len(last.gets) : last.gets[i].headers = ("x-key" :> k)

(* C5, as stated: construction without a session succeeds and creates a    *)
(* session whose 'x-key' header is the api_key, and every GET issued       *)
(* later carries that header.                                              *)
C5_AsStated ==
    (Constructed /\ ctor.args.session = PyNone)
        => /\ ctor.raised = Ok
           /\ client = "ready"
           /\ ctor.created_session
           /\ session.headers = ("x-key" :> ctor.args.api_key)
           /\ GetsCarry(ctor.args.api_key)

(* C5, amended: construction without a session and with a non-empty        *)
(* api_key succeeds and creates a session whose only header is 'x-key',    *)
(* equal to that api_key; every GET issued later by any operation of the   *)
(* client carries 'x-key' equal to the api_key given at construction.      *)
C5_CreatedSessionCarriesKey ==
    (Constructed /\ ctor.args.session = PyNone /\ NonEmpty(ctor.args.api_key))
        => /\ ctor.raised = Ok
           /\ client = "ready"
           /\ ctor.created_session
           /\ session.headers = ("x-key" :> ctor.args.api_key)
           /\ GetsCarry(ctor.args.api_key)

C5_Witness ==
    /\ Constructed
    /\ ctor.args.session = PyNone
    /\ ctor.args.api_key = PyStr("valid_api_key")
    /\ last.op = "query_storage"
    /\ OneRequest
    /\ last.gets[1].headers["x-key"] = PyStr("valid_api_key")

(* C6: a query_storage or query_unavailability call whose other fields     *)
(* are valid fails validation, issuing no request, when from_date and      *)
(* to_date are both given and from_date is after to_date; otherwise it     *)
(* passes validation and the request is issued.                            *)
C6_FromAfterToRejected ==
    (IsQuery /\ FieldsValid(last.args, Kind) /\ RuleStartEnd(last.args, Kind))
        => IF After(last.args.from_date, last.args.to_date)
           THEN ValidationFailed
           ELSE OneRequest

(* C7: a query_unavailability call whose other fields are valid, with      *)
(* start and end both given and start after end, fails with the date-range *)
(* error and issues no request, whatever from_date and to_date are.        *)
C7_StartAfterEndRejected ==
    (/\ last.op = "query_unavailability"
     /\ FieldsValid(last.args, "unavailability")
     /\ After(last.args.start, last.args.end))
        => last.raised = ValueError(DateErrorMsg) /\ NoRequest

C7_Witness ==
    /\ last.op = "query_unavailability"
    /\ FieldsValid(last.args, "unavailability")
    /\ After(last.args.start, last.args.end)
    /\ Given(last.args.from_date)
    /\ Given(last.args.to_date)
    /\ ~After(last.args.from_date, last.args.to_date)
    /\ last.raised = ValueError(DateErrorMsg)
    /\ NoRequest

EndFlagValues ==
    {PyStr("Confirmed"), PyStr("Estimate"), PyStr("confirmed"),
     PyStr("estimate")}

(* C8: a query_unavailability call whose end_flag is given and is not an   *)
(* allowed end-flag value raises a ValueError whose message begins         *)
(* "end_flag must be one of" and issues no request.                        *)
C8_EndFlagRejected ==
    (/\ last.op = "query_unavailability"
     /\ Given(last.args.end_flag)
     /\ last.args.end_flag \notin EndFlagValues)
        => /\ last.raised.exc = "ValueError"
           /\ last.raised.msg = "end_flag must be one of"
           /\ NoRequest

\* the value of key k in the validated mapping, Absent when it has none
Param(k) == IF HasKey(vcall.params, k) THEN vcall.params[k] ELSE Absent

(* C9: with a recognized endpoint, a mapping in which country is empty,    *)
(* null or absent and company or facility is non-empty fails validation    *)
(* with the country-required error.                                        *)
C9_CountryRequired ==
    (/\ Validated
     /\ IsAPIType(vcall.api_type)
     /\ ~NonEmpty(Param("country"))
     /\ (NonEmpty(Param("company")) \/ NonEmpty(Param("facility"))))
        => vcall.raised = ValueError(CountryErrorMsg)

(* C10, as stated: a mapping that has the keys country, company and        *)
(* facility, in which facility is non-empty and company is empty, fails    *)
(* validation with the company-required error.                             *)
C10_AsStated ==
    (/\ Validated
     /\ HasKey(vcall.params, "country")
     /\ NonEmpty(Param("facility"))
     /\ Param("company") \in {PyNone, PyStr("")})
        => vcall.raised = ValueError(CompanyErrorMsg)

(* C10, amended: with a recognized endpoint and a non-empty country, a     *)
(* mapping in which facility is non-empty and company is null or the       *)
(* empty string fails validation with the company-required error.          *)
C10_CompanyRequired ==
    (/\ Validated
     /\ IsAPIType(vcall.api_type)
     /\ NonEmpty(Param("country"))
     /\ NonEmpty(Param("facility"))
     /\ Param("company") \in {PyNone, PyStr("")})
        => vcall.raised = ValueError(CompanyErrorMsg)

C10_Witness ==
    /\ Validated
    /\ vcall.api_type = "AGSI"
    /\ Param("country") = PyStr("US")
    /\ Param("company") = PyNone
    /\ Param("facility") = PyStr("Facility 1")
    /\ vcall.raised = ValueError(CompanyErrorMsg)

----------------------------------------------------------------------------
(* The mapping handed to validate_input_params, read as the fields the     *)
(* rules speak of; a key the mapping lacks reads as Absent.                *)

VArgs ==
    [api_type |-> vcall.api_type,
     country |-> Param("country"), company |-> Param("company"),
     facility |-> Param("facility"),
     from_date |-> Param("from_date"), to_date |-> Param("to_date"),
     start |-> Param("start"), end |-> Param("end"),
     page |-> Param("page"), size |-> Param("size"),
     reverse |-> Param("reverse"), type |-> Param("type")]

RuleRanges(a) == ~After(a.from_date, a.to_date) /\ ~After(a.start, a.end)

Holds(keys) == keys \subseteq DOMAIN vcall.params
PlaceKeys == {"country", "company", "facility"}

\* the mapping holds every key the rules read, page and size as integers
FullMapping ==
    /\ Holds(PlaceKeys \cup {"page", "size", "reverse", "type"})
    /\ Param("page").t = "int"
    /\ Param("size").t = "int"

RuleErrors ==
    {ValueError(ApiTypeErrorMsg), ValueError(CountryErrorMsg),
     ValueError(CompanyErrorMsg), ValueError(DateErrorMsg),
     ValueError(PageErrorMsg), ValueError(SizeErrorMsg)}
        \cup {[exc |-> "ValueError", msg |-> m, arg |-> vcall.raised.arg] :
                m \in {ReverseErrorMsg, TypeErrorMsg}}

AllowedTypes(kind) ==
    IF kind = "storage"
    THEN <<PyStr("EU"), PyStr("NE"), PyStr("AI")>>
    ELSE <<PyStr("Unplanned"), PyStr("Planned")>>

\* the error of the first rule, in the stated order, that the call violates
FirstViolated(a, kind) ==
    IF ~RuleEndpoint(a) THEN ValueError(ApiTypeErrorMsg)
    ELSE IF ~RuleCountry(a) THEN ValueError(CountryErrorMsg)
    ELSE IF ~RuleCompany(a) THEN ValueError(CompanyErrorMsg)
    ELSE IF ~RuleRanges(a) THEN ValueError(DateErrorMsg)
    ELSE IF ~RulePage(a) THEN ValueError(PageErrorMsg)
    ELSE IF ~RuleSize(a) THEN ValueError(SizeErrorMsg)
    ELSE IF ~RuleReverse(a)
         THEN ValueErrorF(ReverseErrorMsg,
                          <<PyStr("true"), PyStr("false"), PyInt(0), PyInt(1)>>)
    ELSE IF ~RuleType(a, kind)
         THEN ValueErrorF(TypeErrorMsg, AllowedTypes(kind))
    ELSE Ok

RulesViolated(a, kind) ==
    {r \in {"endpoint", "country", "company", "ranges", "page", "size",
            "reverse", "type"} :
        \/ r = "endpoint" /\ ~RuleEndpoint(a)
        \/ r = "country" /\ ~RuleCountry(a)
        \/ r = "company" /\ ~RuleCompany(a)
        \/ r = "ranges" /\ ~RuleRanges(a)
        \/ r = "page" /\ ~RulePage(a)
        \/ r = "size" /\ ~RuleSize(a)
        \/ r = "reverse" /\ ~RuleReverse(a)
        \/ r = "type" /\ ~RuleType(a, kind)}

----------------------------------------------------------------------------
(* C11: when a mapping that holds every key the rules read, page and size  *)
(* as integers, violates several rules at once, validate_input_params      *)
(* raises the error of the first violated rule in the order endpoint,      *)
(* country, company, date ranges, page, size, reverse, type; and for any   *)
(* mapping whatever, a rule's error is raised only when it is that of the  *)
(* first violated rule, never while an earlier rule is violated.           *)
C11_FirstViolatedRuleWins ==
    Validated
        => /\ FullMapping
                => vcall.raised = FirstViolated(VArgs, vcall.request_type)
           /\ vcall.raised \in RuleErrors
                => vcall.raised = FirstViolated(VArgs, vcall.request_type)

\* country, page, size and type are violated at once: the country error
C11_Witness ==
    /\ Validated /\ FullMapping
    /\ {"country", "page", "size", "type"}
           \subseteq RulesViolated(VArgs, vcall.request_type)
    /\ vcall.api_type \in APIType
    /\ vcall.raised = ValueError(CountryErrorMsg)

----------------------------------------------------------------------------
(* C12: when the endpoint identifier is not a member of APIType,           *)
(* validate_input_params fails with an error whose message speaks of the   *)
(* endpoint, not of the dates nor of any other field.                      *)

\* the field each message of helpers.py speaks of
Subject(msg) ==
    CASE msg = DateErrorMsg -> "dates"
      [] msg = ApiTypeErrorMsg -> "dates"
      [] msg = CountryErrorMsg -> "country"
      [] msg = CompanyErrorMsg -> "company"
      [] msg = PageErrorMsg -> "page"
      [] msg = SizeErrorMsg -> "size"
      [] msg = ReverseErrorMsg -> "reverse"
      [] msg = TypeErrorMsg -> "type"
      [] OTHER -> "none"

C12_EndpointErrorNamesEndpoint ==
    (Validated /\ vcall.api_type \notin APIType)
        => /\ vcall.raised.exc = "ValueError"
           /\ Subject(vcall.raised.msg) = "api_type"

----------------------------------------------------------------------------
(* C13: a query whose page or size is None, every rule satisfied, issues   *)
(* its request, and the request carries no such parameter.                 *)
C13_NullPageOrSizeAccepted ==
    (IsQuery /\ RulesHold(last.args, Kind)
        /\ (~Given(last.args.page) \/ ~Given(last.args.size)))
        => /\ OneRequest
           /\ ~Given(last.args.page) => "page" \notin DOMAIN last.gets[1].params
           /\ ~Given(last.args.size) => "size" \notin DOMAIN last.gets[1].params

----------------------------------------------------------------------------
(* C14: for every integer size outside [1, 300] validate_input_params      *)
(* fails, with the size error when the rules before it are satisfied (the  *)
(* keys they read held, page an integer); for every integer size inside    *)
(* [1, 300], 1 and 300 included, it never raises the size error.           *)

IntegerSize == Param("size").t = "int"
SizeInRange == Param("size").i >= 1 /\ Param("size").i <= 300

BeforePage(a) ==
    /\ Holds(PlaceKeys)
    /\ RuleEndpoint(a) /\ RuleCountry(a) /\ RuleCompany(a) /\ RuleRanges(a)

BeforeSize(a) ==
    BeforePage(a) /\ Holds({"page"}) /\ a.page.t = "int" /\ RulePage(a)

C14_SizeRange ==
    (Validated /\ IntegerSize)
        => /\ ~SizeInRange => vcall.raised # Ok
           /\ (~SizeInRange /\ BeforeSize(VArgs))
                => vcall.raised = ValueError(SizeErrorMsg)
           /\ SizeInRange => vcall.raised # ValueError(SizeErrorMsg)

\* 301 is refused with the size error
C14_Witness ==
    /\ Validated /\ BeforeSize(VArgs)
    /\ Param("size") = PyInt(301)
    /\ vcall.raised = ValueError(SizeErrorMsg)

\* 300 and 1 are accepted
C14_WitnessUpperBound ==
    /\ Validated /\ BeforeSize(VArgs)
    /\ Param("size") = PyInt(300)
    /\ vcall.raised = Ok

----------------------------------------------------------------------------
(* C15: for every integer page <= 0, the rules before it satisfied (the    *)
(* keys they read held), validate_input_params fails with the error        *)
(* "page param must be more than 0"; for every integer page > 0 it never   *)
(* raises that error.                                                      *)

IntegerPage == Param("page").t = "int"

C15_PagePositive ==
    (Validated /\ IntegerPage)
        => /\ (Param("page").i <= 0 /\ BeforePage(VArgs))
                => vcall.raised = ValueError(PageErrorMsg)
           /\ Param("page").i > 0 => vcall.raised # ValueError(PageErrorMsg)

\* page 0 is refused with the page error
C15_Witness ==
    /\ Validated /\ BeforePage(VArgs)
    /\ Param("page") = PyInt(0)
    /\ vcall.raised = ValueError(PageErrorMsg)

----------------------------------------------------------------------------
(* C16: with every rule before it satisfied (the mapping holding every key *)
(* the rules read, page and size integers), validate_input_params raises   *)
(* the type error exactly when type is non-empty and outside the set of    *)
(* the request kind, EU/NE/AI for storage and Planned/Unplanned for        *)
(* unavailability, and raises nothing otherwise: a type of one kind is     *)
(* refused under the other, an empty or None type is accepted.             *)

TypesOf(kind) ==
    IF kind = "storage"
    THEN {PyStr("EU"), PyStr("NE"), PyStr("AI")}
    ELSE {PyStr("Planned"), PyStr("Unplanned")}

BeforeType(a) ==
    /\ FullMapping
    /\ RuleEndpoint(a) /\ RuleCountry(a) /\ RuleCompany(a) /\ RuleRanges(a)
    /\ RulePage(a) /\ RuleSize(a) /\ RuleReverse(a)

TypeRefused ==
    /\ vcall.raised.exc = "ValueError"
    /\ vcall.raised.msg = TypeErrorMsg
    /\ {vcall.raised.arg[i] : i \in DOMAIN vcall.raised.arg}
           = TypesOf(vcall.request_type)

C16_TypeByKind ==
    (Validated /\ BeforeType(VArgs))
        => IF NonEmpty(Param("type"))
                /\ Param("type") \notin TypesOf(vcall.request_type)
           THEN TypeRefused
           ELSE vcall.raised = Ok

\* "Planned", a type of unavailability, is refused under storage
C16_Witness ==
    /\ Validated /\ BeforeType(VArgs)
    /\ vcall.request_type = "storage"
    /\ Param("type") = PyStr("Planned")
    /\ TypeRefused

----------------------------------------------------------------------------
(* C17: with every rule before it satisfied, validate_input_params raises  *)
(* the reverse error exactly when reverse is present, non-empty and not    *)
(* one of the tokens "true", "false", 0, 1; with reverse absent, None or   *)
(* empty it does not fail.                                                 *)

BeforeReverse(a) ==
    /\ Holds(PlaceKeys \cup {"page", "size", "type"})
    /\ a.page.t = "int" /\ a.size.t = "int"
    /\ RuleEndpoint(a) /\ RuleCountry(a) /\ RuleCompany(a) /\ RuleRanges(a)
    /\ RulePage(a) /\ RuleSize(a)

ReverseRefused ==
    /\ vcall.raised.exc = "ValueError"
    /\ vcall.raised.msg = ReverseErrorMsg

C17_ReverseTokens ==
    (Validated /\ BeforeReverse(VArgs))
        => /\ ReverseRefused
                <=> (NonEmpty(Param("reverse"))
                        /\ ~IsReverseToken(Param("reverse")))
           /\ (~NonEmpty(Param("reverse"))
                /\ RuleType(VArgs, vcall.request_type))
                => vcall.raised = Ok

----------------------------------------------------------------------------
(* The parameters of a request, as the specification describes them.       *)

Falsy == {PyNone, PyStr(""), PyInt(0), PyBool(FALSE)}
Entries(f) == {<<k, f[k]>> : k \in DOMAIN f}
TruthyEntries(pairs) == {e \in pairs : e[2] \notin Falsy}
Sent == Entries(last.gets[1].params)
BodyReturned ==
    last.transport.kind = "ok"
        => last.raised = Ok /\ last.result = last.transport.body

----------------------------------------------------------------------------
(* C18: the parameters of the GET that fetch issues are exactly the        *)
(* entries of the mapping it is given whose value is not None, "", 0 or    *)
(* False, key and value unchanged, and none for a None mapping; fetch      *)
(* raises no validation error; no request of any operation carries a       *)
(* falsy parameter.                                                        *)
C18_TruthyEntriesSent ==
    /\ last.op = "fetch"
        => /\ OneRequest
           /\ Sent = IF last.args.params = PyNone THEN {}
                     ELSE TruthyEntries(Entries(last.args.params.d))
           /\ last.raised.exc \notin {"ValueError", "KeyError", "TypeError"}
    /\ (last.op \notin {"none", "api_key"} /\ OneRequest)
        => \A e \in Sent : e[2] \notin Falsy

\* of a, b, c, d, e, f only the entries a = "x" and f = "y" are sent
C18_Witness ==
    /\ last.op = "fetch" /\ OneRequest
    /\ last.args.params # PyNone
    /\ DOMAIN last.args.params.d = {"a", "b", "c", "d", "e", "f"}
    /\ Sent = {<<"a", PyStr("x")>>, <<"f", PyStr("y")>>}

----------------------------------------------------------------------------
(* C19: a query_storage call that passes validation issues one GET to the  *)
(* base URL of its endpoint, no path appended, whose parameters are the    *)
(* truthy ones of from, to, date, page, reverse, size, updated, type,      *)
(* country, company, facility, from_date under "from" and to_date under    *)
(* "to"; it returns the decoded JSON body of the response unchanged.       *)

StorageFields(a) ==
    {<<"from", a.from_date>>, <<"to", a.to_date>>, <<"date", a.date>>,
     <<"page", a.page>>, <<"reverse", a.reverse>>, <<"size", a.size>>,
     <<"updated", a.updated>>, <<"type", a.type>>, <<"country", a.country>>,
     <<"company", a.company>>, <<"facility", a.facility>>}

C19_StorageRequest ==
    (last.op = "query_storage" /\ ~NoRequest)
        => /\ OneRequest
           /\ last.gets[1].url = ApiValue(last.args.api_type)
           /\ Sent = TruthyEntries(StorageFields(last.args))
           /\ BodyReturned

\* the call of test_query_storage_success, answered with a JSON body
C19_Witness ==
    /\ last.op = "query_storage" /\ OneRequest
    /\ last.gets[1].url
           = [host |-> "agsi.gie.eu", segs |-> <<"api">>, slash |-> TRUE]
    /\ Sent = {<<"from", PyDate(1)>>, <<"to", PyDate(MaxDate)>>,
               <<"page", PyInt(1)>>, <<"size", PyInt(30)>>,
               <<"country", PyStr("DE")>>, <<"company", PyStr("ABC Corp")>>}
    /\ last.transport.kind = "ok"
    /\ last.result = last.transport.body

----------------------------------------------------------------------------
(* C20: a query_unavailability call that passes validation issues one GET  *)
(* to the base URL joined with "unavailability", sends end_flag under      *)
(* "end_flag" and type under "type" as given, with the other truthy        *)
(* fields, and returns the decoded JSON body unchanged.                    *)

UnavailabilityFields(a) ==
    {<<"page", a.page>>, <<"reverse", a.reverse>>, <<"size", a.size>>,
     <<"from", a.from_date>>, <<"to", a.to_date>>, <<"start", a.start>>,
     <<"end", a.end>>, <<"updated", a.updated>>, <<"type", a.type>>,
     <<"end_flag", a.end_flag>>, <<"country", a.country>>,
     <<"company", a.company>>, <<"facility", a.facility>>}

UnavailabilityUrl(api) ==
    [host |-> ApiValue(api).host,
     segs |-> ApiValue(api).segs \o <<"unavailability">>,
     slash |-> FALSE]

C20_UnavailabilityRequest ==
    (last.op = "query_unavailability" /\ ~NoRequest)
        => /\ OneRequest
           /\ last.gets[1].url = UnavailabilityUrl(last.args.api_type)
           /\ Sent = TruthyEntries(UnavailabilityFields(last.args))
           /\ BodyReturned

\* the call of test_query_unavailability_success, answered with a JSON body
C20_Witness ==
    /\ last.op = "query_unavailability" /\ OneRequest
    /\ last.gets[1].url
           = [host |-> "agsi.gie.eu", segs |-> <<"api", "unavailability">>,
              slash |-> FALSE]
    /\ <<"end_flag", PyStr("Confirmed")>> \in Sent
    /\ <<"type", PyStr("Unplanned")>> \in Sent
    /\ <<"country", PyStr("DE")>> \in Sent
    /\ last.transport.kind = "ok"
    /\ last.result = last.transport.body

----------------------------------------------------------------------------
(* C21: when the GET or the decoding of its response fails in fetch or in  *)
(* a query operation, the caller gets that very failure: the operation     *)
(* returns no value, has issued one GET and no second one, and raises the  *)
(* error of the transport as it is.                                        *)

Requesting ==
    last.op \in {"fetch", "query_storage", "query_unavailability",
                 "query_eic_listing", "query_news_listing"}
TransportFailed ==
    ~NoRequest /\ last.transport.kind \in {"get_raises", "json_raises"}

C21_TransportFailurePassesThrough ==
    (Requesting /\ TransportFailed)
        => /\ OneRequest
           /\ last.raised = last.transport.error
           /\ last.result = NoValue

\* a query_storage whose response does not decode raises the decoding error
C21_Witness ==
    /\ last.op = "query_storage"
    /\ last.transport.kind = "json_raises"
    /\ OneRequest
    /\ last.raised.exc = "JSONDecodeError"
    /\ last.result = NoValue

----------------------------------------------------------------------------
(* C22: query_eic_listing issues one GET to the path "about", with the     *)
(* parameters show = "listing" when show_listing is true and none          *)
(* otherwise; query_news_listing issues one GET to the path "news", with   *)
(* the parameter url = news_url when news_url is non-empty and none        *)
(* otherwise; neither raises a validation error.                           *)

PathUrl(api, path) ==
    [host |-> ApiValue(api).host,
     segs |-> ApiValue(api).segs \o <<path>>,
     slash |-> FALSE]

NotValidated == last.raised.exc \notin {"ValueError", "KeyError", "TypeError"}

C22_ListingRequests ==
    /\ last.op = "query_eic_listing"
        => /\ OneRequest
           /\ last.gets[1].url = PathUrl(last.args.api_type, "about")
           /\ Sent = IF last.args.show_listing = PyBool(TRUE)
                     THEN {<<"show", PyStr("listing")>>}
                     ELSE {}
           /\ NotValidated
    /\ last.op = "query_news_listing"
        => /\ OneRequest
           /\ last.gets[1].url = PathUrl(last.args.api_type, "news")
           /\ Sent = IF NonEmpty(last.args.news_url)
                     THEN {<<"url", last.args.news_url>>}
                     ELSE {}
           /\ NotValidated

\* the general information: "about" with no parameters
C22_Witness ==
    /\ last.op = "query_eic_listing"
    /\ last.args.show_listing = PyBool(FALSE)
    /\ OneRequest
    /\ last.gets[1].url
           = [host |-> "agsi.gie.eu", segs |-> <<"api", "about">>,
              slash |-> FALSE]
    /\ Sent = {}

\* one news item: "news" with its url
C22_WitnessNews ==
    /\ last.op = "query_news_listing"
    /\ OneRequest
    /\ last.gets[1].url
           = [host |-> "agsi.gie.eu", segs |-> <<"api", "news">>,
              slash |-> FALSE]
    /\ Sent = {<<"url", PyStr("371616")>>}

----------------------------------------------------------------------------
(* C23: validate_dates(beginning, end) raises "Starting date is after end  *)
(* date!" if and only if both dates are given and beginning is strictly    *)
(* after end; with equal dates, with beginning before end, and with one    *)
(* or both dates None it returns without error.                            *)

DatesValidated == vcall.op = "validate_dates" /\ vcall.raised # Pending

C23_ValidateDates ==
    DatesValidated
        => IF vcall.beginning # PyNone /\ vcall.end # PyNone
                /\ vcall.beginning.d > vcall.end.d
           THEN vcall.raised = ValueError(DateErrorMsg)
           ELSE vcall.raised = Ok

\* equal dates are accepted
C23_Witness ==
    /\ DatesValidated
    /\ vcall.beginning # PyNone
    /\ vcall.beginning = vcall.end
    /\ vcall.raised = Ok

\* a beginning one day after the end is refused
C23_WitnessRefused ==
    /\ DatesValidated
    /\ vcall.beginning = PyDate(2) /\ vcall.end = PyDate(1)
    /\ vcall.raised = ValueError(DateErrorMsg)

----------------------------------------------------------------------------
(* C24: a query_storage or query_unavailability call whose reverse is 0,   *)
(* every other rule satisfied, passes validation and its request carries   *)
(* no reverse parameter; with reverse "true", "false" or 1 the request     *)
(* carries reverse with that value.                                        *)

C24_ReverseZeroDropped ==
    (IsQuery /\ Given(last.args.page) /\ Given(last.args.size)
        /\ RulesHold(last.args, Kind)
        /\ last.args.reverse \in ReverseTokens)
        => /\ OneRequest
           /\ last.args.reverse = PyInt(0)
                => "reverse" \notin DOMAIN last.gets[1].params
           /\ last.args.reverse # PyInt(0)
                => <<"reverse", last.args.reverse>> \in Sent

\* reverse = 0 on query_unavailability: a request without reverse
C24_Witness ==
    /\ last.op = "query_unavailability"
    /\ last.args.reverse = PyInt(0)
    /\ OneRequest
    /\ "reverse" \notin DOMAIN last.gets[1].params

\* reverse = 1 on query_storage: sent as 1
C24_WitnessOne ==
    /\ last.op = "query_storage"
    /\ last.args.reverse = PyInt(1)
    /\ OneRequest
    /\ <<"reverse", PyInt(1)>> \in Sent

====
